---- MODULE Spec2Model ----
(***************************************************************************)
(* A model of builtin/am.c: the resumable "git am" session.  Strings are   *)
(* sequences of one-character strings, files are such sequences, and the   *)
(* session directory is a function from the names of the files that exist  *)
(* to their contents.  One action per step of cmd_am / am_setup / am_run,  *)
(* plus Crash (the process is killed between two steps).                   *)
(***************************************************************************)
EXTENDS Integers, Sequences, FiniteSets, TLC

(* ---------------------------------------------------------------- bounds *)
MaxPatches == 2
MaxInvocations == 2
MaxCodecLen == 3
MaxMailLines == 4

(* ------------------------------------------------------------- constants *)
Prec == 4
ExitOk == 0
ExitFatal == 128

NL == "\n"
SQ == "'"
BS == "\\"
Digits == <<"0", "1", "2", "3", "4", "5", "6", "7", "8", "9">>

(* ------------------------------------------------------- string helpers *)
\* TLC evaluates an operator's argument again at each use of the parameter.
\* The({e(x) : x \in {v}}) is e(v) with v evaluated once.
The(S) == CHOOSE x \in S : TRUE

Max(S) == CHOOSE x \in S : \A y \in S : y <= x
Min(S) == CHOOSE x \in S : \A y \in S : x <= y

IsSpace(c) == c \in {" ", "\t", NL, "\r"}

IsDigit(c) == \E i \in 1..10 : Digits[i] = c

DigitVal(c) == (CHOOSE i \in 1..10 : Digits[i] = c) - 1

\* "%d" of a non-negative number
RECURSIVE Itoa(_)
Itoa(n) == IF n < 10 THEN <<Digits[n + 1]>>
           ELSE Itoa(n \div 10) \o <<Digits[(n % 10) + 1]>>

\* strtol(buf, NULL, 10) on a non-negative decimal: the value of the leading
\* digits, 0 if there are none
Strtol(s0) ==
    The({ LET n == Min({i \in 1..Len(s) : ~IsDigit(s[i])} \cup {Len(s) + 1}) - 1
              v[i \in 0..n] == IF i = 0 THEN 0 ELSE v[i - 1] * 10 + DigitVal(s[i])
          IN v[n] : s \in {s0} })

\* strbuf_rtrim
Rtrim(s0) ==
    The({ SubSeq(s, 1, Max({i \in 1..Len(s) : ~IsSpace(s[i])} \cup {0})) : s \in {s0} })

\* "%0*d": zero-padded to width w
Pad(s0, w) ==
    The({ IF Len(s) >= w THEN s
          ELSE [i \in 1..w |-> IF i <= w - Len(s) THEN "0" ELSE s[i - (w - Len(s))]]
          : s \in {s0} })

StartsWith(s, p) == Len(s) >= Len(p) /\ SubSeq(s, 1, Len(p)) = p

SkipPrefix(s, p) == SubSeq(s, Len(p) + 1, Len(s))

\* the positions of the newlines of t
NLs(t) == {i \in 1..Len(t) : t[i] = NL}

\* the lines strbuf_getline(&sb, fp, '\n') returns before it returns EOF: a
\* last line without a terminator counts
NumLines(t) == Cardinality(NLs(t)) + (IF t # <<>> /\ t[Len(t)] # NL THEN 1 ELSE 0)

\* where line k of t ends: its newline, or just past the end of t
LineEnd(t, k) ==
    IF k = 0 THEN 0
    ELSE IF k > Cardinality(NLs(t)) THEN Len(t) + 1
    ELSE CHOOSE p \in NLs(t) : Cardinality({q \in NLs(t) : q <= p}) = k

\* line k of t, without its terminator
Line(t, k) == SubSeq(t, LineEnd(t, k - 1) + 1, LineEnd(t, k) - 1)

\* what is left of t to read after its first k lines
AfterLines(t, k) == SubSeq(t, LineEnd(t, k) + 1, Len(t))

firstline(m) == Line(m, 1)

(* ------------------------------------------------ author-script codec *)
KeyName == <<"G","I","T","_","A","U","T","H","O","R","_","N","A","M","E","=">>
KeyEmail == <<"G","I","T","_","A","U","T","H","O","R","_","E","M","A","I","L","=">>
KeyDate == <<"G","I","T","_","A","U","T","H","O","R","_","D","A","T","E","=">>

\* sq_quote_buf: wrap in single quotes, each ' becomes '\''
sq_quote_buf(s0) ==
    The({ LET q[i \in 0..Len(s)] ==
                  IF i = 0 THEN <<SQ>>
                  ELSE q[i - 1] \o (IF s[i] = SQ THEN <<SQ, BS, SQ, SQ>> ELSE <<s[i]>>)
          IN q[Len(s)] \o <<SQ>> : s \in {s0} })

\* sq_dequote, scanning after the opening quote: i is the read position
RECURSIVE SqScan(_, _, _)
SqScan(s, i, acc) ==
    IF i > Len(s) THEN [ok |-> FALSE, val |-> <<>>]
    ELSE IF s[i] # SQ THEN SqScan(s, i + 1, Append(acc, s[i]))
    ELSE IF i = Len(s) THEN [ok |-> TRUE, val |-> acc]
    ELSE IF i + 3 <= Len(s) /\ s[i + 1] = BS /\ s[i + 2] = SQ /\ s[i + 3] = SQ
         THEN SqScan(s, i + 4, Append(acc, SQ))
    ELSE [ok |-> FALSE, val |-> <<>>]

sq_dequote(s0) ==
    The({ IF s = <<>> \/ Head(s) # SQ THEN [ok |-> FALSE, val |-> <<>>]
          ELSE SqScan(s, 2, <<>>) : s \in {s0} })

\* mutant: the values are put between quotes as they are
AuthorScriptTextNoEscape(name, email, date) ==
    KeyName \o <<SQ>> \o name \o <<SQ, NL>> \o
    KeyEmail \o <<SQ>> \o email \o <<SQ, NL>> \o
    KeyDate \o <<SQ>> \o date \o <<SQ, NL>>

\* the text write_author_script hands to write_file
AuthorScriptText(name, email, date) ==
    KeyName \o sq_quote_buf(name) \o <<NL>> \o
    KeyEmail \o sq_quote_buf(email) \o <<NL>> \o
    KeyDate \o sq_quote_buf(date) \o <<NL>>

\* one "KEY='value'" line of read_author_script: skip_prefix, then sq_dequote
ReadKeyLine(line0, key) ==
    The({ IF StartsWith(line, key) THEN sq_dequote(SkipPrefix(line, key))
          ELSE [ok |-> FALSE, val |-> <<>>] : line \in {line0} })

\* read_author_script on the contents of an existing author-script file:
\* three lines are read in turn, then nothing may be left.  ret is 0 or -1
read_author_script(text0) ==
    The({ IF NumLines(text) < 3 \/ AfterLines(text, 3) # <<>>
          THEN [ret |-> -1, author_name |-> <<>>, author_email |-> <<>>,
                author_date |-> <<>>]
          ELSE The({ IF n.ok /\ e.ok /\ d.ok
                     THEN [ret |-> 0, author_name |-> n.val,
                           author_email |-> e.val, author_date |-> d.val]
                     ELSE [ret |-> -1, author_name |-> <<>>,
                           author_email |-> <<>>, author_date |-> <<>>]
                     : n \in {ReadKeyLine(Line(text, 1), KeyName)},
                       e \in {ReadKeyLine(Line(text, 2), KeyEmail)},
                       d \in {ReadKeyLine(Line(text, 3), KeyDate)} })
          : text \in {text0} })

(* ------------------------------------------------------------ stripspace *)
\* stripspace(&sb, 0): trailing whitespace of each line removed, empty lines
\* at both ends removed, runs of empty lines collapsed, final newline added
stripspace(t0) ==
    The({ LET keep == {k \in DOMAIN ls :
                         \/ ls[k] # <<>>
                         \/ /\ k > 1 /\ ls[k - 1] # <<>>
                            /\ \E j \in DOMAIN ls : j > k /\ ls[j] # <<>>}
              out[k \in 0..Len(ls)] ==
                  IF k = 0 THEN <<>>
                  ELSE out[k - 1] \o (IF k \in keep THEN ls[k] \o <<NL>> ELSE <<>>)
          IN out[Len(ls)]
          : ls \in { The({ [k \in 1..NumLines(t) |-> Rtrim(Line(t, k))] : t \in {t0} }) } })

(* ------------------------------------------------- the input and mailinfo *)
\* What the splitter's numbered file k holds.  "plain": a patch with an
\* author, a message and a body.  "long": the same with a longer subject.
\* "sentinel": pine's internal folder data (no patch body).  "empty": a
\* message whose patch body is empty.  "missing": the numbered file is no
\* longer in the directory.
Kinds == {"plain", "long", "sentinel", "empty", "missing"}

\* the kinds that carry a patch to apply and commit
PatchKinds == {"plain", "long"}

Sentinel == <<"M","a","i","l"," ","S","y","s","t","e","m"," ",
              "I","n","t","e","r","n","a","l"," ","D","a","t","a">>

HdrSubject == <<"S","u","b","j","e","c","t",":"," ">>
HdrAuthor == <<"A","u","t","h","o","r",":"," ">>
HdrEmail == <<"E","m","a","i","l",":"," ">>
HdrDate == <<"D","a","t","e",":"," ">>

\* the fields mailinfo extracts from numbered file k of kind kd
MailAuthor(k, kd) == IF kd = "sentinel" THEN Sentinel ELSE <<"A", SQ, Digits[k + 1]>>
MailEmail(k, kd) == IF kd = "sentinel" THEN <<"M">> ELSE <<"e", Digits[k + 1]>>
MailSubject(k, kd) ==
    IF kd = "sentinel" THEN <<"D">>
    ELSE IF kd = "long" THEN <<"s", Digits[k + 1], "-","l","o","n","g","-","t","e","x","t">>
    ELSE <<"s", Digits[k + 1]>>
MailDate(k, kd) == IF kd = "sentinel" THEN <<"d", "0">> ELSE <<"d", Digits[k + 1]>>

\* mailinfo's standard output, which parse_patch directs into "info"
MailinfoInfo(k, kd) ==
    HdrAuthor \o MailAuthor(k, kd) \o <<NL>> \o
    HdrEmail \o MailEmail(k, kd) \o <<NL>> \o
    HdrSubject \o MailSubject(k, kd) \o <<NL>> \o
    HdrDate \o MailDate(k, kd) \o <<NL, NL>>

\* what mailinfo writes to its "msg" and "patch" arguments
MailinfoMsg(k, kd) == IF kd = "sentinel" THEN <<>> ELSE <<"m", Digits[k + 1], NL>>
MailinfoPatch(k, kd) == IF kd \in PatchKinds THEN <<"+", Digits[k + 1], NL>> ELSE <<>>

(* ------------------------------------------------------------ the files *)
NoFiles == [n \in {} |-> <<>>]

\* write_file(path, 1, fmt, ...): create or truncate, then write
WriteFile(fs, name, text) ==
    [n \in DOMAIN fs \cup {name} |-> IF n = name THEN text ELSE fs[n]]

\* a file opened O_WRONLY | O_CREAT and written from offset 0: what the
\* old contents had beyond the new length stays
WriteNoTrunc(fs, name, text) ==
    IF name \in DOMAIN fs /\ Len(fs[name]) > Len(text)
    THEN WriteFile(fs, name, text \o SubSeq(fs[name], Len(text) + 1, Len(fs[name])))
    ELSE WriteFile(fs, name, text)

Unlink(fs, name) == [n \in DOMAIN fs \ {name} |-> fs[n]]

\* read_state_file(sb, file, hint, trim): sb is reset; -1 when absent
read_state_file(fs, name, trim) ==
    IF name \in DOMAIN fs
    THEN LET t == IF trim THEN Rtrim(fs[name]) ELSE fs[name]
         IN [ret |-> Len(t), sb |-> t]
    ELSE [ret |-> -1, sb |-> <<>>]

\* mutant: only a file that does not exist counts as empty
is_empty_file_absent_only(fs, name) == name \notin DOMAIN fs

\* is_empty_file: 1 if the file is empty or does not exist
is_empty_file(fs, name) == name \notin DOMAIN fs \/ fs[name] = <<>>

(* ------------------------------------------------------------ the state *)
VARIABLES
    mbox,        \* the input: the kind of each numbered file, in order
    pc,          \* where the running invocation is; "idle", "exited" between
    inv,         \* invocations started so far
    exitCode,    \* exit status of the last invocation
    diag,        \* the last diagnostic the invocation printed
    state,       \* struct am_state (dir and prec are fixed)
    patch,       \* am_run's local: the current patch's file name
    parent,      \* do_commit's local: the resolved HEAD, 0 when unborn
    commit,      \* do_commit's local: the commit object just written
    dirExists,   \* the session directory exists
    files,       \* the state files in it: name -> contents
    patchFiles,  \* the numbered patch files in it
    writtenFor,  \* the patch number author-script / final-commit were written for
    index,       \* the index: the patches applied to it, in order
    objects,     \* the object store: the commits written, by id
    HEAD,        \* the branch tip: a commit id, 0 when unborn
    calls,       \* the collaborators this invocation has run, with the index
    halted       \* the session as it was on disk at the last halt on a failed apply

vars == <<mbox, pc, inv, exitCode, diag, state, patch, parent, commit,
          dirExists, files, patchFiles, writtenFor, index, objects, HEAD,
          calls, halted>>

disk == <<dirExists, files, patchFiles, writtenFor>>
repo == <<index, objects, HEAD>>
locals == <<patch, parent, commit>>

\* am_state_init
am_state_init == [cur |-> 0, last |-> 0, author_name |-> <<>>,
                  author_email |-> <<>>, author_date |-> <<>>, msg |-> <<>>]

NoneWritten == [n \in {"author-script", "final-commit"} |-> 0]

BaseCommit == [tree |-> <<>>, parent |-> 0, author_name |-> <<"B">>,
               author_email |-> <<"b">>, author_date |-> <<"d">>,
               msg |-> <<"b", NL>>]

MboxInputs == UNION {[1..n -> Kinds] : n \in 0..MaxPatches}

Init ==
    /\ mbox \in MboxInputs
    /\ pc = "idle"
    /\ inv = 0
    /\ exitCode = ExitOk
    /\ diag = ""
    /\ state = am_state_init
    /\ patch = <<>>
    /\ parent = 0
    /\ commit = 0
    /\ \E pre \in BOOLEAN :
          /\ dirExists = pre
          /\ files = IF pre THEN WriteFile(NoFiles, "stray", <<"x">>) ELSE NoFiles
    /\ patchFiles = {}
    /\ writtenFor = NoneWritten
    /\ index = <<>>
    /\ \E born \in BOOLEAN :
          /\ objects = IF born THEN <<BaseCommit>> ELSE <<>>
          /\ HEAD = IF born THEN 1 ELSE 0
    /\ calls = <<>>
    /\ halted = am_state_init

(* ---------------------------------------------------- process endings *)
\* exit(code) after printing d; the memory image is left as it was
Exit(code, d) == pc' = "exited" /\ exitCode' = code /\ diag' = d

\* die(): exit status 128
Die(d) == Exit(ExitFatal, d)

Running == pc \notin {"idle", "exited"}

(* ------------------------------------------------------- Session Store *)
am_in_progress == /\ dirExists
                  /\ "last" \in DOMAIN files
                  /\ "next" \in DOMAIN files

\* am_load on a freshly initialised am_state: ret < 0 when the author
\* script does not parse
am_load ==
    LET nxt == read_state_file(files, "next", TRUE)
        lst == read_state_file(files, "last", TRUE)
        as == IF "author-script" \in DOMAIN files
              THEN read_author_script(files["author-script"])
              ELSE [ret |-> 0, author_name |-> <<>>, author_email |-> <<>>,
                    author_date |-> <<>>]
        fc == read_state_file(files, "final-commit", FALSE)
    IN [ret |-> as.ret,
        st |-> [cur |-> Strtol(nxt.sb), last |-> Strtol(lst.sb),
                author_name |-> as.author_name,
                author_email |-> as.author_email,
                author_date |-> as.author_date,
                msg |-> IF as.ret < 0 THEN <<>> ELSE fc.sb]]

\* msgnum: cur, zero-padded to prec digits
msgnum(st) == Pad(Itoa(st.cur), Prec)

\* the number a patch file name stands for
PatchNo(name) == Strtol(name)

\* the numbered files the splitter leaves for an input
SplitFiles(in) == {Pad(Itoa(k), Prec) : k \in {j \in DOMAIN in : in[j] # "missing"}}

(* ------------------------------------------------------------- cmd_am *)
\* cmd_am up to the call of am_setup or am_run: am_state_init, then
\* am_in_progress decides between am_load and a new session
CmdAm ==
    /\ pc = "idle" \/ (pc = "exited" /\ exitCode # ExitOk)
    /\ inv < MaxInvocations
    /\ inv' = inv + 1
    /\ patch' = <<>> /\ parent' = 0 /\ commit' = 0
    /\ calls' = <<>> /\ UNCHANGED halted
    /\ IF am_in_progress
       THEN /\ state' = am_load.st
            /\ IF am_load.ret < 0
               THEN Die("could not parse author script")
               ELSE pc' = "loop" /\ exitCode' = ExitOk /\ diag' = ""
       ELSE /\ state' = am_state_init
            /\ pc' = "setup" /\ exitCode' = ExitOk /\ diag' = ""
    /\ UNCHANGED <<mbox, disk, repo>>

(* ------------------------------------------------------------ am_setup *)
\* mutant: the directory is made before the format is looked at
SetupDetectAfterMkdir(fmt) ==
    /\ pc = "setup"
    /\ dirExists' = TRUE
    /\ IF fmt = 0
       THEN Exit(ExitFatal, "Patch format detection failed.")
       ELSE pc' = "mkdir" /\ UNCHANGED <<exitCode, diag>>
    /\ UNCHANGED <<mbox, inv, state, locals, files, patchFiles, writtenFor, repo>>
    /\ UNCHANGED <<calls, halted>>

\* am_setup, lines 407-413: fmt is the format given or detected, 0 unknown
SetupDetect(fmt) ==
    /\ pc = "setup"
    /\ IF fmt = 0
       THEN Exit(ExitFatal, "Patch format detection failed.")
       ELSE pc' = "mkdir" /\ UNCHANGED <<exitCode, diag>>
    /\ UNCHANGED <<mbox, inv, state, locals, disk, repo>>
    /\ UNCHANGED <<calls, halted>>

\* am_setup, lines 415-416: an existing directory is tolerated
SetupMkdir(ok) ==
    /\ pc = "mkdir"
    /\ IF dirExists \/ ok
       THEN /\ dirExists' = TRUE
            /\ pc' = "split" /\ UNCHANGED <<exitCode, diag>>
       ELSE /\ Die("failed to create directory")
            /\ UNCHANGED dirExists
    /\ UNCHANGED <<mbox, inv, state, locals, files, patchFiles, writtenFor, repo>>
    /\ UNCHANGED <<calls, halted>>

\* am_destroy: remove_dir_recursively on the session directory
am_destroy ==
    /\ dirExists' = FALSE
    /\ files' = NoFiles
    /\ patchFiles' = {}
    /\ writtenFor' = NoneWritten

\* am_setup, lines 418-421 with split_patches_mbox
SetupSplit(ok) ==
    /\ pc = "split"
    /\ IF ok
       THEN /\ patchFiles' = patchFiles \cup SplitFiles(mbox)
            /\ state' = [state EXCEPT !.cur = 1, !.last = Len(mbox)]
            /\ pc' = "write_next" /\ UNCHANGED <<exitCode, diag>>
            /\ UNCHANGED <<dirExists, files, writtenFor>>
       ELSE /\ am_destroy
            /\ Die("Failed to split patches.")
            /\ UNCHANGED state
    /\ UNCHANGED <<mbox, inv, locals, repo>>
    /\ UNCHANGED <<calls, halted>>

\* am_setup, line 423
SetupWriteNext ==
    /\ pc = "write_next"
    /\ files' = WriteFile(files, "next", Itoa(state.cur))
    /\ pc' = "write_last"
    /\ UNCHANGED <<mbox, inv, exitCode, diag, state, locals, dirExists,
                   patchFiles, writtenFor, repo>>
    /\ UNCHANGED <<calls, halted>>

\* am_setup, line 425
SetupWriteLast ==
    /\ pc = "write_last"
    /\ files' = WriteFile(files, "last", Itoa(state.last))
    /\ pc' = "loop"
    /\ UNCHANGED <<mbox, inv, exitCode, diag, state, locals, dirExists,
                   patchFiles, writtenFor, repo>>
    /\ UNCHANGED <<calls, halted>>

(* --------------------------------------------------------- parse_patch *)
\* "if (buf.len) strbuf_addch(&buf, '\n'); strbuf_addstr(&buf, x);"
AppendField(old, x) == IF old # <<>> THEN old \o <<NL>> \o x ELSE old \o x

\* one line of "info", lines 493-509
ParseHeader(st, line) ==
    IF StartsWith(line, HdrSubject)
    THEN [st EXCEPT !.msg = AppendField(@, SkipPrefix(line, HdrSubject))]
    ELSE IF StartsWith(line, HdrAuthor)
    THEN [st EXCEPT !.author_name = AppendField(@, SkipPrefix(line, HdrAuthor))]
    ELSE IF StartsWith(line, HdrEmail)
    THEN [st EXCEPT !.author_email = AppendField(@, SkipPrefix(line, HdrEmail))]
    ELSE IF StartsWith(line, HdrDate)
    THEN [st EXCEPT !.author_date = AppendField(@, SkipPrefix(line, HdrDate))]
    ELSE st

\* the loop over the lines of "info", lines 489-511
ParseInfo(st, text0) ==
    The({ LET f[n \in 0..NumLines(text)] ==
                  IF n = 0 THEN st
                  ELSE The({ ParseHeader(f[n - 1], line) : line \in {Line(text, n)} })
          IN f[NumLines(text)] : text \in {text0} })

\* the session files after git-mailinfo has run on numbered file k
RunMailinfo(fs, k, kd) ==
    WriteFile(WriteFile(WriteNoTrunc(fs, "info", MailinfoInfo(k, kd)),
                        "msg", MailinfoMsg(k, kd)),
              "patch", MailinfoPatch(k, kd))

\* lines 522-525: the message is the subjects, a blank line and "msg"
ComposeMsg(st, fs) == [st EXCEPT !.msg = stripspace(@ \o <<NL, NL>> \o fs["msg"])]

(* -------------------------------------------------------------- am_run *)
\* the guard of am_run's loop, line 600
MorePatchesOffByOne(st) == st.cur <= st.last + 1

MorePatches(st) == st.cur <= st.last

\* mutant: the patch file is handed to parse_patch without file_exists
LoopTestNoExistCheck ==
    /\ pc = "loop"
    /\ IF MorePatches(state)
       THEN /\ patch' = msgnum(state)
            /\ pc' = "parse"
       ELSE /\ pc' = "destroy"
            /\ UNCHANGED patch
    /\ UNCHANGED <<mbox, inv, exitCode, diag, state, parent, commit, disk, repo>>
    /\ UNCHANGED <<calls, halted>>

\* mutant: a missing patch file sends the loop back to its test without am_next
LoopTestNoAdvanceOnMissing ==
    /\ pc = "loop"
    /\ IF MorePatches(state)
       THEN /\ patch' = msgnum(state)
            /\ pc' = IF msgnum(state) \in patchFiles THEN "parse" ELSE "loop"
       ELSE /\ pc' = "destroy"
            /\ UNCHANGED patch
    /\ UNCHANGED <<mbox, inv, exitCode, diag, state, parent, commit, disk, repo>>
    /\ UNCHANGED <<calls, halted>>

\* the loop test and lines 601-604
LoopTest ==
    /\ pc = "loop"
    /\ IF MorePatches(state)
       THEN /\ patch' = msgnum(state)
            /\ pc' = IF msgnum(state) \in patchFiles THEN "parse" ELSE "next"
       ELSE /\ pc' = "destroy"
            /\ UNCHANGED patch
    /\ UNCHANGED <<mbox, inv, exitCode, diag, state, parent, commit, disk, repo>>
    /\ UNCHANGED <<calls, halted>>

\* parse_patch, called at line 606; ok: git-mailinfo could be run
ParsePatch(ok) ==
    /\ pc = "parse"
    /\ IF ~ok
       THEN Die("could not parse patch") /\ UNCHANGED <<state, files, calls, halted>>
       ELSE \E fs \in {RunMailinfo(files, PatchNo(patch), mbox[PatchNo(patch)])} :
            \E st \in {ParseInfo(state, fs["info"])} :
               /\ files' = fs
               /\ calls' = Append(calls, <<"mailinfo", state.cur>>)
               /\ UNCHANGED halted
               /\ IF st.author_name = Sentinel
                  THEN /\ state' = st
                       /\ pc' = "next" /\ UNCHANGED <<exitCode, diag>>
                  ELSE IF is_empty_file(fs, "patch")
                  THEN /\ state' = st
                       /\ Die("Patch is empty. Was it split wrong?")
                  ELSE /\ state' = ComposeMsg(st, fs)
                       /\ pc' = "write_author_script"
                       /\ UNCHANGED <<exitCode, diag>>
    /\ UNCHANGED <<mbox, inv, locals, dirExists, patchFiles, writtenFor, repo>>

\* write_author_script, called at line 609
WriteAuthorScript ==
    /\ pc = "write_author_script"
    /\ files' = WriteFile(files, "author-script",
                          AuthorScriptText(state.author_name, state.author_email,
                                           state.author_date))
    /\ writtenFor' = [writtenFor EXCEPT !["author-script"] = state.cur]
    /\ pc' = "write_final_commit"
    /\ UNCHANGED <<mbox, inv, exitCode, diag, state, locals, dirExists,
                   patchFiles, repo>>
    /\ UNCHANGED <<calls, halted>>

\* mutant: the message file is not written before the patch is applied
WriteFinalCommitSkipped ==
    /\ pc = "write_final_commit"
    /\ pc' = "apply"
    /\ UNCHANGED <<mbox, inv, exitCode, diag, state, locals, disk, repo>>
    /\ UNCHANGED <<calls, halted>>

\* line 610
WriteFinalCommit ==
    /\ pc = "write_final_commit"
    /\ files' = WriteFile(files, "final-commit", state.msg)
    /\ writtenFor' = [writtenFor EXCEPT !["final-commit"] = state.cur]
    /\ pc' = "apply"
    /\ UNCHANGED <<mbox, inv, exitCode, diag, state, locals, dirExists,
                   patchFiles, repo>>
    /\ UNCHANGED <<calls, halted>>

\* run_apply: git-apply is started on "patch"
RunApplyStart ==
    /\ pc = "apply"
    /\ pc' = "applying"
    /\ calls' = Append(calls, <<"apply", state.cur>>)
    /\ UNCHANGED halted
    /\ UNCHANGED <<mbox, inv, exitCode, diag, state, locals, disk, repo>>

\* mutant: a successful application goes on to am_next without do_commit
RunApplyReturnSkipsCommit(ok) ==
    /\ pc = "applying"
    /\ IF ok
       THEN /\ index' = Append(index, state.cur)
            /\ pc' = "next" /\ UNCHANGED <<exitCode, diag>>
       ELSE /\ Exit(ExitFatal, "Patch failed")
            /\ UNCHANGED index
    /\ halted' = IF ok THEN halted ELSE am_load.st
    /\ UNCHANGED <<mbox, inv, state, locals, disk, objects, HEAD>>
    /\ UNCHANGED calls

\* run_apply returns; lines 614-625 on failure.  ok: git-apply succeeded,
\* the index then holds the patch
RunApplyReturn(ok) ==
    /\ pc = "applying"
    /\ IF ok
       THEN /\ index' = Append(index, state.cur)
            /\ pc' = "commit" /\ UNCHANGED <<exitCode, diag>>
       ELSE /\ Exit(ExitFatal, "Patch failed")
            /\ UNCHANGED index
    /\ halted' = IF ok THEN halted ELSE am_load.st
    /\ UNCHANGED <<mbox, inv, state, locals, disk, objects, HEAD>>
    /\ UNCHANGED calls

(* ----------------------------------------------------------- do_commit *)
\* mutant: the commit is written without its parent
CommitObjectNoParent(st, tr, par) ==
    [tree |-> tr, parent |-> 0, author_name |-> st.author_name,
     author_email |-> st.author_email, author_date |-> st.author_date,
     msg |-> st.msg]

\* the commit object commit_tree writes
CommitObject(st, tr, par) ==
    [tree |-> tr, parent |-> par, author_name |-> st.author_name,
     author_email |-> st.author_email, author_date |-> st.author_date,
     msg |-> st.msg]

\* update_ref's check of the old value: ptr is NULL (0) when there was no
\* parent, and then nothing is compared
RefUpdateAllowed(ptr, current) == ptr = 0 \/ ptr = current

\* do_commit, lines 566-582; ok: the tree and the commit could be written
DoCommitCreate(ok) ==
    /\ pc = "commit"
    /\ IF ~ok
       THEN Die("failed to write commit object") /\ UNCHANGED <<parent, commit, objects>>
       ELSE IF state.author_name = <<>>
       THEN Die("empty ident name not allowed") /\ UNCHANGED <<parent, commit, objects>>
       ELSE /\ parent' = HEAD
            /\ objects' = Append(objects, CommitObject(state, index, HEAD))
            /\ commit' = Len(objects) + 1
            /\ pc' = "update_ref" /\ UNCHANGED <<exitCode, diag>>
    /\ UNCHANGED <<mbox, inv, state, patch, disk, index, HEAD>>
    /\ UNCHANGED <<calls, halted>>

\* do_commit, line 590
DoCommitUpdateRef ==
    /\ pc = "update_ref"
    /\ IF RefUpdateAllowed(parent, HEAD)
       THEN /\ HEAD' = commit
            /\ pc' = "next" /\ UNCHANGED <<exitCode, diag>>
       ELSE /\ Die("cannot lock ref HEAD")
            /\ UNCHANGED HEAD
    /\ UNCHANGED <<mbox, inv, state, locals, disk, index, objects>>
    /\ UNCHANGED <<calls, halted>>

(* ------------------------------------------------------------- am_next *)
\* lines 434-435
AmNextWrite ==
    /\ pc = "next"
    /\ state' = [state EXCEPT !.cur = @ + 1]
    /\ files' = WriteFile(files, "next", Itoa(state.cur + 1))
    /\ pc' = "next_unlink_author"
    /\ UNCHANGED <<mbox, inv, exitCode, diag, locals, dirExists, patchFiles,
                   writtenFor, repo>>
    /\ UNCHANGED <<calls, halted>>

\* lines 437-440
AmNextUnlinkAuthor ==
    /\ pc = "next_unlink_author"
    /\ state' = [state EXCEPT !.author_name = <<>>, !.author_email = <<>>,
                              !.author_date = <<>>]
    /\ files' = Unlink(files, "author-script")
    /\ writtenFor' = [writtenFor EXCEPT !["author-script"] = 0]
    /\ pc' = "next_unlink_msg"
    /\ UNCHANGED <<mbox, inv, exitCode, diag, locals, dirExists, patchFiles, repo>>
    /\ UNCHANGED <<calls, halted>>

\* mutant: the message file is left behind
AmNextKeepsMsg ==
    /\ pc = "next_unlink_msg"
    /\ state' = [state EXCEPT !.msg = <<>>]
    /\ pc' = "loop"
    /\ UNCHANGED <<mbox, inv, exitCode, diag, locals, disk, repo>>
    /\ UNCHANGED <<calls, halted>>

\* lines 442-443
AmNextUnlinkMsg ==
    /\ pc = "next_unlink_msg"
    /\ state' = [state EXCEPT !.msg = <<>>]
    /\ files' = Unlink(files, "final-commit")
    /\ writtenFor' = [writtenFor EXCEPT !["final-commit"] = 0]
    /\ pc' = "loop"
    /\ UNCHANGED <<mbox, inv, exitCode, diag, locals, dirExists, patchFiles, repo>>
    /\ UNCHANGED <<calls, halted>>

\* line 633 and cmd_am's return 0
AmRunDestroy ==
    /\ pc = "destroy"
    /\ am_destroy
    /\ Exit(ExitOk, "")
    /\ UNCHANGED <<mbox, inv, state, locals, repo>>
    /\ UNCHANGED <<calls, halted>>

(* --------------------------------------------------------------- crash *)
\* the process is killed between two steps; what is on disk stays.  The
\* status of a killed process is 128 plus the signal number.
Crash ==
    /\ Running
    /\ Exit(ExitFatal + 9, "killed")
    /\ UNCHANGED <<mbox, inv, state, locals, disk, repo>>
    /\ UNCHANGED <<calls, halted>>

(* ------------------------------------------------------- specification *)
\* the steps of the program itself
Step ==
    \/ CmdAm
    \/ \E fmt \in 0..1 : SetupDetect(fmt)
    \/ \E ok \in BOOLEAN : SetupMkdir(ok)
    \/ \E ok \in BOOLEAN : SetupSplit(ok)
    \/ SetupWriteNext
    \/ SetupWriteLast
    \/ LoopTest
    \/ \E ok \in BOOLEAN : ParsePatch(ok)
    \/ WriteAuthorScript
    \/ WriteFinalCommit
    \/ RunApplyStart
    \/ \E ok \in BOOLEAN : RunApplyReturn(ok)
    \/ \E ok \in BOOLEAN : DoCommitCreate(ok)
    \/ DoCommitUpdateRef
    \/ AmNextWrite
    \/ AmNextUnlinkAuthor
    \/ AmNextUnlinkMsg
    \/ AmRunDestroy

Next == Step \/ Crash

\* every invocation, killed at any point or not
Spec == Init /\ [][Next]_vars

\* invocations that end only by themselves: exit, die or return
SpecNoCrash == Init /\ [][Step]_vars

\* a step of a running invocation: every collaborator it calls returns
RunStep == Running /\ Step

\* invocations that are not killed and whose collaborators all return
SpecLive == Init /\ [][Step]_vars /\ WF_vars(RunStep)

\* one uninterrupted invocation on a new session whose numbered files all
\* hold a patch that applies: no collaborator fails and the process is not killed
InitClean == Init /\ Len(mbox) >= 1 /\ \A k \in DOMAIN mbox : mbox[k] \in PatchKinds

NextClean ==
    \/ CmdAm
    \/ SetupDetect(1)
    \/ SetupMkdir(TRUE)
    \/ SetupSplit(TRUE)
    \/ SetupWriteNext
    \/ SetupWriteLast
    \/ LoopTest
    \/ ParsePatch(TRUE)
    \/ WriteAuthorScript
    \/ WriteFinalCommit
    \/ RunApplyStart
    \/ RunApplyReturn(TRUE)
    \/ DoCommitCreate(TRUE)
    \/ DoCommitUpdateRef
    \/ AmNextWrite
    \/ AmNextUnlinkAuthor
    \/ AmNextUnlinkMsg
    \/ AmRunDestroy

SpecClean == InitClean /\ [][NextClean]_vars /\ WF_vars(NextClean)

(* ------------------------------------------------------ Format Detector *)
PATCH_FORMAT_UNKNOWN == 0
PATCH_FORMAT_MBOX == 1

\* the character codes of the characters the mails tried are made of
Ord == [c \in {"a", "b", ":", " ", "\t", NL, "F", "r", "o", "m"} |->
           CASE c = "\t" -> 9 [] c = NL -> 10 [] c = " " -> 32 [] c = ":" -> 58
             [] c = "F" -> 70 [] c = "a" -> 97 [] c = "b" -> 98
             [] c = "m" -> 109 [] c = "o" -> 111 [] c = "r" -> 114]

\* ('!' <= *x && *x <= '9') || (';' <= *x && *x <= '~')
HeaderNameChar(c) == (33 <= Ord[c] /\ Ord[c] <= 57) \/ (59 <= Ord[c] /\ Ord[c] <= 126)

\* the scan of one header line, lines 285-292: the first character that is
\* not a name character must be a colon and not the first of the line; a
\* line that ends before any such character is passed
HeaderLineOk(l) ==
    \A i \in DOMAIN l :
        (~HeaderNameChar(l[i]) /\ \A j \in 1..(i - 1) : HeaderNameChar(l[j]))
            => (l[i] = ":" /\ i # 1)

\* is_email: 1 if every line before the first empty one, folded lines
\* apart, passes the scan
is_email(text0) ==
    The({ LET n == NumLines(text)
              ls == [k \in 1..n |-> Rtrim(Line(text, k))]
              end == Min({k \in 1..n : ls[k] = <<>>} \cup {n + 1})
          IN IF \A k \in 1..(end - 1) :
                    ls[k][1] \in {"\t", " "} \/ HeaderLineOk(ls[k])
             THEN 1 ELSE 0
          : text \in {text0} })

\* strbuf_trim
Trim(s0) ==
    The({ SubSeq(s, Min({i \in 1..Len(s) : ~IsSpace(s[i])} \cup {Len(s) + 1}), Len(s))
          : s \in {Rtrim(s0)} })

\* the three lines detect_patch_format looks at, lines 329-339: the first
\* line that is not blank and the two after it, trimmed; empty past the end
FirstThree(text0) ==
    The({ LET n == NumLines(text)
              ls == [k \in 1..n |-> Trim(Line(text, k))]
              i1 == Min({k \in 1..n : ls[k] # <<>>} \cup {n + 1})
          IN [k \in 1..3 |-> IF i1 + k - 1 <= n THEN ls[i1 + k - 1] ELSE <<>>]
          : text \in {text0} })

\* detect_patch_format on one path that is a file with the given text
detect_patch_format(text0) ==
    The({ IF \/ StartsWith(l[1], <<"F", "r", "o", "m", " ">>)
             \/ StartsWith(l[1], <<"F", "r", "o", "m", ":", " ">>)
          THEN PATCH_FORMAT_MBOX
          ELSE IF l[1] # <<>> /\ l[2] # <<>> /\ l[3] # <<>> /\ is_email(text0) = 1
          THEN PATCH_FORMAT_MBOX
          ELSE PATCH_FORMAT_UNKNOWN
          : l \in {FirstThree(text0)} })

\* the lines the mails tried are made of
MailLines == { <<"a", ":">>, <<"a">>, <<":", "a">>, <<"a", " ", "b", ":">>,
               <<" ", "a">>, <<"\t", "a">>, <<>>, <<"a", ":", " ", "b", " ">> }

\* lines joined, each with its newline
JoinLines(ls) ==
    LET t[k \in 0..Len(ls)] == IF k = 0 THEN <<>> ELSE t[k - 1] \o ls[k] \o <<NL>>
    IN t[Len(ls)]

MailTexts == { JoinLines(ls) : ls \in UNION {[1..n -> MailLines] : n \in 0..MaxMailLines} }

\* am_setup is entered with no format given and one path: in this
\* specification mbox is the text of that file
InitDetect ==
    /\ mbox \in MailTexts
    /\ pc = "setup"
    /\ inv = 1
    /\ exitCode = ExitOk
    /\ diag = ""
    /\ state = am_state_init
    /\ patch = <<>>
    /\ parent = 0
    /\ commit = 0
    /\ dirExists = FALSE
    /\ files = NoFiles
    /\ patchFiles = {}
    /\ writtenFor = NoneWritten
    /\ index = <<>>
    /\ objects = <<>>
    /\ HEAD = 0
    /\ calls = <<>>
    /\ halted = am_state_init

\* am_setup, lines 407-413, with the format detect_patch_format returns
DetectFormat == SetupDetect(detect_patch_format(mbox))

SpecDetect == InitDetect /\ [][DetectFormat]_vars

(* ------------------------------------------------ the codec on its own *)
\* the characters of the identities tried: a letter, the quote, the
\* backslash, the exclamation mark, a blank and the newline
CodecAlphabet == {"a", SQ, BS, "!", " ", NL}

CodecStrings(n) == [1..n -> CodecAlphabet]

\* the triples (name, email, date) of at most MaxCodecLen characters in all
CodecInputs ==
    UNION { CodecStrings(l[1]) \X CodecStrings(l[2]) \X CodecStrings(l[3]) :
            l \in {m \in (0..MaxCodecLen) \X (0..MaxCodecLen) \X (0..MaxCodecLen) :
                      m[1] + m[2] + m[3] <= MaxCodecLen} }

\* a session in progress on its only patch, about to call
\* write_author_script with any identity in the am_state
InitCodec ==
    /\ mbox = <<"plain">>
    /\ pc = "write_author_script"
    /\ inv = 1
    /\ exitCode = ExitOk
    /\ diag = ""
    /\ \E t \in CodecInputs :
          state = [cur |-> 1, last |-> 1, author_name |-> t[1],
                   author_email |-> t[2], author_date |-> t[3],
                   msg |-> <<"m", NL>>]
    /\ patch = <<"0", "0", "0", "1">>
    /\ parent = 0
    /\ commit = 0
    /\ dirExists = TRUE
    /\ files = WriteFile(WriteFile(NoFiles, "next", <<"1">>), "last", <<"1">>)
    /\ patchFiles = {<<"0", "0", "0", "1">>}
    /\ writtenFor = NoneWritten
    /\ index = <<>>
    /\ objects = <<>>
    /\ HEAD = 0
    /\ calls = <<>>
    /\ halted = am_state_init

\* the identity is written, the process is stopped, the next invocation
\* loads the session
NextCodec == WriteAuthorScript \/ Crash \/ CmdAm

SpecCodec == InitCodec /\ [][NextCodec]_vars

(* ------------------------------------------------- a concurrent writer *)
\* the commit another process puts on the branch
ExternalCommit(par) ==
    [tree |-> <<>>, parent |-> par, author_name |-> <<"X">>,
     author_email |-> <<"x">>, author_date |-> <<"d">>, msg |-> <<"x", NL>>]

\* another process moves (or, on an unborn branch, creates) HEAD after
\* do_commit has resolved it and before do_commit updates it; once
ExternalRefUpdate ==
    /\ pc = "update_ref"
    /\ \A i \in DOMAIN objects : objects[i].author_name # <<"X">>
    /\ objects' = Append(objects, ExternalCommit(HEAD))
    /\ HEAD' = Len(objects) + 1
    /\ UNCHANGED <<mbox, pc, inv, exitCode, diag, state, locals, disk, index, calls, halted>>

\* the program's own steps, with the concurrent writer
NextRace == Step \/ ExternalRefUpdate

SpecRace == Init /\ [][NextRace]_vars

(* ------------------------------------------------- history of the branch *)
\* the commits from the root to commit id, oldest first
RECURSIVE Chain(_)
Chain(id) == IF id = 0 THEN <<>> ELSE Append(Chain(objects[id].parent), id)

\* the branch tip before the first invocation: the base commit, or none
PreRunTip == IF objects # <<>> /\ objects[1] = BaseCommit THEN 1 ELSE 0

\* the commits the session added to the branch, oldest first
NewCommits == SubSeq(Chain(HEAD), PreRunTip + 1, Len(Chain(HEAD)))

\* the patch a commit is for: the one its tree has applied last
PatchOf(c) == IF objects[c].tree = <<>> THEN 0
              ELSE objects[c].tree[Len(objects[c].tree)]

Halted == pc = "exited" /\ diag = "Patch failed"
Done == pc = "exited" /\ exitCode = ExitOk /\ inv > 0
NextOnDisk == Strtol(files["next"])
LastOnDisk == Strtol(files["last"])

\* the numbers below k of the patches that get a commit, in order
RECURSIVE Committable(_)
Committable(k) ==
    IF k = 0 THEN <<>>
    ELSE IF mbox[k] \in PatchKinds THEN Append(Committable(k - 1), k)
    ELSE Committable(k - 1)

(* ================================================================ claims *)

\* C1: whenever the applier fails for patch k the invocation ends with
\* status 128 and, at that moment, the session directory exists, the
\* persisted next is k, the author-script and final-commit written for k
\* are present, the author-script passes the strict parser, and the branch
\* holds exactly the commits of the patches before k.
C1_HaltLeavesValidSession ==
    Halted =>
        /\ exitCode = ExitFatal
        /\ dirExists
        /\ "next" \in DOMAIN files /\ NextOnDisk = state.cur
        /\ "author-script" \in DOMAIN files
        /\ "final-commit" \in DOMAIN files
        /\ writtenFor["author-script"] = state.cur
        /\ writtenFor["final-commit"] = state.cur
        /\ read_author_script(files["author-script"]).ret = 0
        /\ [i \in 1..Len(NewCommits) |-> PatchOf(NewCommits[i])]
              = Committable(state.cur - 1)

\* C2: a session left by an application-failure halt is always resumable:
\* the invocation that follows such a halt never ends with "could not
\* parse author script".
C2_HaltedSessionLoads ==
    [][Halted => diag' # "could not parse author script"]_vars

\* C3: a new session of N >= 1 patches that all apply, run without
\* interruption, ends with exit code 0, the session directory removed and
\* exactly N new commits, the first on the pre-run tip, each next one on
\* the one before, the i-th holding patches 1..i.
C3_CleanRunResult ==
    pc = "exited" =>
        /\ exitCode = ExitOk
        /\ ~dirExists
        /\ Len(NewCommits) = Len(mbox)
        /\ \A i \in 1..Len(NewCommits) :
              /\ objects[NewCommits[i]].parent =
                    (IF i = 1 THEN PreRunTip ELSE NewCommits[i - 1])
              /\ objects[NewCommits[i]].tree = [j \in 1..i |-> j]

C3_CleanRun == <>(pc = "exited") /\ []C3_CleanRunResult

C3_Witness == pc = "exited" /\ Len(mbox) = MaxPatches /\ PreRunTip = 1
              /\ Len(NewCommits) = MaxPatches

\* C4: am_next persists next before it deletes the transient files, so
\* that after a crash at any point an author-script or final-commit found
\* on disk was written for the patch that next names, never an earlier one.
C4_NoStaleRecordAfterCrash ==
    (pc = "exited" /\ diag = "killed" /\ dirExists /\ "next" \in DOMAIN files) =>
        \A f \in {"author-script", "final-commit"} :
            f \in DOMAIN files => writtenFor[f] = NextOnDisk

\* what one uninterrupted run of am_run commits for the input: for every
\* numbered file in turn, mailinfo into the same "info", parse_patch from
\* an empty record, a commit unless the patch is skipped
UninterruptedRun ==
    LET r[k \in 0..Len(mbox)] ==
            IF k = 0 THEN [fs |-> NoFiles, recs |-> <<>>]
            ELSE IF mbox[k] = "missing" THEN r[k - 1]
            ELSE The({ The({ IF st.author_name = Sentinel \/ is_empty_file(fs, "patch")
                             THEN [fs |-> fs, recs |-> prev.recs]
                             ELSE [fs |-> fs,
                                   recs |-> Append(prev.recs,
                                       The({ [patch |-> k,
                                              author_name |-> c.author_name,
                                              author_email |-> c.author_email,
                                              author_date |-> c.author_date,
                                              msg |-> c.msg]
                                             : c \in {ComposeMsg(st, fs)} }))]
                             : st \in {ParseInfo(am_state_init, fs["info"])} })
                       : prev \in {r[k - 1]},
                         fs \in {RunMailinfo(r[k - 1].fs, k, mbox[k])} })
    IN r[Len(mbox)].recs

\* the patch, identity and message of a commit
CommitRecord(c) ==
    [patch |-> PatchOf(c), author_name |-> objects[c].author_name,
     author_email |-> objects[c].author_email,
     author_date |-> objects[c].author_date, msg |-> objects[c].msg]

\* C5: wherever invocations were interrupted, the run that finally
\* completes leaves the branch history of an uninterrupted run: one commit
\* per applied patch, in patch order, with the same identity and message.
C5_ResumeIsLossless ==
    Done => [i \in 1..Len(NewCommits) |-> CommitRecord(NewCommits[i])] = UninterruptedRun

\* C6: while the applier is about to run or running on patch k, the
\* author-script and final-commit hold k's record as the sequencer has it,
\* and nothing writes them until the applier has returned.
C6_RecordOnDisk ==
    pc \in {"apply", "applying"} =>
        /\ "author-script" \in DOMAIN files
        /\ "final-commit" \in DOMAIN files
        /\ files["author-script"] =
              AuthorScriptText(state.author_name, state.author_email, state.author_date)
        /\ files["final-commit"] = state.msg
        /\ writtenFor["author-script"] = state.cur
        /\ writtenFor["final-commit"] = state.cur

C6_PersistBeforeApply ==
    /\ []C6_RecordOnDisk
    /\ [][pc = "applying" => (files' = files /\ writtenFor' = writtenFor)]_vars

C6_Witness == pc = "applying" /\ inv = 2 /\ state.cur = 2

\* C7: a patch k that the applier applied is never passed (next > k, in
\* memory or on disk), and its transient files are never gone, unless a
\* commit for k is on the branch.
Applied(k) == \E i \in DOMAIN index : index[i] = k

HasCommit(k) == \E i \in DOMAIN NewCommits : PatchOf(NewCommits[i]) = k

C7_AdvanceOnlyAfterCommit ==
    \A k \in DOMAIN mbox :
        (/\ Applied(k)
         /\ \/ state.cur > k
            \/ ~dirExists
            \/ "next" \in DOMAIN files /\ NextOnDisk > k
            \/ "author-script" \notin DOMAIN files
            \/ "final-commit" \notin DOMAIN files)
        => HasCommit(k)

C7_Witness == /\ dirExists /\ "next" \in DOMAIN files /\ NextOnDisk = 2
              /\ Applied(1) /\ HasCommit(1)
              /\ "author-script" \notin DOMAIN files

\* C8: when am_next has completed for patch k, next on disk is k+1 and
\* neither author-script nor final-commit exists, whether k was committed,
\* skipped as the sentinel, or missing.
C8_AfterAdvance ==
    (pc = "loop" /\ patch # <<>>) =>
        /\ "next" \in DOMAIN files
        /\ NextOnDisk = PatchNo(patch) + 1
        /\ state.cur = PatchNo(patch) + 1
        /\ "author-script" \notin DOMAIN files
        /\ "final-commit" \notin DOMAIN files

C8_Witness == /\ pc = "loop" /\ patch # <<>> /\ inv = 2
              /\ HasCommit(PatchNo(patch))

\* C9: in a session 1 <= cur <= last+1, in memory and on disk; with
\* cur = last+1 the sequencer only finishes am_next and destroys the
\* session; an invocation that ends normally leaves no session directory.
InSession == pc \in {"write_next", "write_last", "loop", "parse",
                     "write_author_script", "write_final_commit", "apply",
                     "applying", "commit", "update_ref", "next",
                     "next_unlink_author", "next_unlink_msg", "destroy"}

C9_CounterRange ==
    /\ InSession => (1 <= state.cur /\ state.cur <= state.last + 1)
    /\ am_in_progress => (1 <= NextOnDisk /\ NextOnDisk <= LastOnDisk + 1)
    /\ (InSession /\ state.cur = state.last + 1) =>
          pc \in {"write_next", "write_last", "loop", "next_unlink_author",
                  "next_unlink_msg", "destroy"}
    /\ Done => ~dirExists

C9_Witness == pc = "destroy" /\ state.cur = state.last + 1 /\ state.last = MaxPatches
              /\ NextOnDisk = LastOnDisk + 1

\* C10: the session directory, or what was in it before the session, is
\* removed only when cur exceeds last (this program has no abort command),
\* never during setup.
DirRemoved == dirExists /\ ~dirExists'
StrayRemoved == "stray" \in DOMAIN files /\ "stray" \notin DOMAIN files'

C10_DestroyOnlyWhenComplete ==
    [][(DirRemoved \/ StrayRemoved) => state.cur > state.last]_vars

(* ------------------------------------------------- collaborators called *)
\* the indices this invocation has run a collaborator on
CallsOf(tool) == {calls[i][2] : i \in {j \in DOMAIN calls : calls[j][1] = tool}}

\* parse_patch has just run git-mailinfo
Extracted == pc = "parse" /\ calls' # calls

SameFile(name) ==
    /\ (name \in DOMAIN files) = (name \in DOMAIN files')
    /\ name \in DOMAIN files => files'[name] = files[name]

\* C11: when the extraction of patch k leaves an empty patch body and the
\* author is not the sentinel, the invocation dies with status 128 in that
\* very step: the applier is not run on k, no commit is made, author-script
\* and final-commit are not written, next stays k and the directory stays.
EmptyBodyDied == pc = "exited" /\ diag = "Patch is empty. Was it split wrong?"

C11_EmptyBodyState ==
    EmptyBodyDied =>
        /\ exitCode = ExitFatal
        /\ dirExists /\ "next" \in DOMAIN files /\ NextOnDisk = state.cur
        /\ state.cur \notin CallsOf("apply")
        /\ ~HasCommit(state.cur)
        /\ writtenFor["author-script"] # state.cur
        /\ writtenFor["final-commit"] # state.cur

C11_EmptyBodyIsFatal ==
    /\ []C11_EmptyBodyState
    /\ [][(/\ Extracted
           /\ ("patch" \notin DOMAIN files' \/ files'["patch"] = <<>>)
           /\ state'.author_name # Sentinel)
          => /\ pc' = "exited" /\ diag' = "Patch is empty. Was it split wrong?"
             /\ UNCHANGED <<repo, writtenFor, dirExists>>
             /\ state'.cur = state.cur
             /\ SameFile("next") /\ SameFile("author-script")
             /\ SameFile("final-commit")]_vars

C11_Witness == EmptyBodyDied /\ state.cur = 2 /\ HasCommit(1)

\* C12: a patch whose extracted author name is the sentinel is never
\* applied and never committed, and the parse_patch step that extracted it
\* goes on to am_next (the counter advances past it), whether its patch
\* body is empty or not.
ExtractedSentinel(k) == MailAuthor(k, mbox[k]) = Sentinel

C12_SentinelState ==
    \A k \in DOMAIN mbox :
        ExtractedSentinel(k) => (~HasCommit(k) /\ k \notin CallsOf("apply"))

C12_SentinelIsSkipped ==
    /\ []C12_SentinelState
    /\ [][(Extracted /\ ExtractedSentinel(state.cur))
          => (pc' = "next" /\ state'.cur = state.cur)]_vars

\* C13: when the numbered file of the current index k does not exist, the
\* loop goes straight to am_next: neither git-mailinfo nor git-apply is run
\* on k, no commit is made, HEAD stays, and am_next makes the counter k+1.
FileMissing == msgnum(state) \notin patchFiles

\* the step is the program's own, not the kill of the process
OwnStep == diag' # "killed"

C13_MissingState ==
    \A k \in DOMAIN mbox :
        mbox[k] = "missing" =>
            /\ k \notin CallsOf("mailinfo")
            /\ k \notin CallsOf("apply")
            /\ ~HasCommit(k)

C13_MissingFileIsSkipped ==
    /\ []C13_MissingState
    /\ [][(pc = "loop" /\ MorePatches(state) /\ FileMissing /\ OwnStep)
          => (pc' = "next" /\ UNCHANGED <<state, repo, calls>>)]_vars
    /\ [][(pc = "next" /\ FileMissing /\ OwnStep)
          => /\ state'.cur = state.cur + 1
             /\ NextOnDisk' = state.cur + 1
             /\ UNCHANGED <<repo, calls>>]_vars

C13_Witness == /\ pc = "loop" /\ state.cur = 3 /\ mbox[2] = "missing"
               /\ HasCommit(1)

\* C14: when format detection fails or the directory cannot be created, the
\* invocation ends with status 128 in that step, nothing on disk is written
\* (no next, no last) and no session is in progress afterwards; detection is
\* decided before the directory is made, which only the mkdir step does.
SetupFailed == /\ pc = "exited"
               /\ diag \in {"Patch format detection failed.",
                            "failed to create directory"}

C14_SetupFailureState == SetupFailed => (exitCode = ExitFatal /\ ~am_in_progress)

C14_SetupFailureCreatesNoSession ==
    /\ []C14_SetupFailureState
    /\ [][SetupFailed' => (pc \in {"setup", "mkdir"} /\ UNCHANGED disk)]_vars
    /\ [][pc = "setup" => (pc' \in {"mkdir", "exited"} /\ UNCHANGED disk)]_vars
    /\ [][(~dirExists /\ dirExists') => pc = "mkdir"]_vars

C14_Witness == /\ pc = "exited" /\ diag = "failed to create directory"
               /\ ~dirExists /\ inv = 2

\* C15: do_commit updates HEAD by compare-and-swap against the parent it
\* resolved, or against "must not exist" when it resolved none: if HEAD was
\* changed, or created, between the resolution and the update, the update
\* is rejected and the invocation dies without overwriting HEAD.
RefChangedSinceResolved == pc = "update_ref" /\ HEAD # parent

C15_RefUpdateIsCompareAndSwap ==
    [][(RefChangedSinceResolved /\ pc' # "update_ref")
       => (pc' = "exited" /\ exitCode' = ExitFatal /\ HEAD' = HEAD)]_vars

\* C16: the author-script codec round-trips: when the three fields held no
\* newline, the invocation that loads the author-script written from them
\* succeeds and has exactly the original name, e-mail and date.
NoNewline(str) == \A i \in DOMAIN str : str[i] # NL

\* the step that loads the author-script the stopped process wrote from
\* the fields still in its am_state
LoadsAuthorScript == /\ diag = "killed" /\ inv' = inv + 1
                     /\ "author-script" \in DOMAIN files

C16_CodecRoundTrip ==
    [][(/\ LoadsAuthorScript
        /\ NoNewline(state.author_name)
        /\ NoNewline(state.author_email)
        /\ NoNewline(state.author_date))
       => /\ pc' = "loop"
          /\ state'.author_name = state.author_name
          /\ state'.author_email = state.author_email
          /\ state'.author_date = state.author_date]_vars

C16_Witness == /\ pc = "loop" /\ inv = 2
               /\ state.author_name = <<SQ, BS>>
               /\ state.author_email = <<"!">>
               /\ state.author_date = <<>>

\* C17: the e-mail header heuristic is false exactly when, before the first
\* blank line, some line that is not a folded continuation has a character
\* outside [0x21-0x39] and [0x3B-0x7E] before its first colon, or begins with
\* a colon, or has no colon at all.
LineFailsRule(l) ==
    LET colons == {i \in DOMAIN l : l[i] = ":"}
    IN \/ colons = {}
       \/ Min(colons) = 1
       \/ \E i \in 1..(Min(colons) - 1) : ~HeaderNameChar(l[i])

FileFailsRule(text) ==
    LET n == NumLines(text)
        ls == [k \in 1..n |-> Rtrim(Line(text, k))]
        end == Min({k \in 1..n : ls[k] = <<>>} \cup {n + 1})
    IN \E k \in 1..(end - 1) : ls[k][1] \notin {"\t", " "} /\ LineFailsRule(ls[k])

\* detection has been decided by is_email alone
HeuristicDecided ==
    /\ pc # "setup"
    /\ \A k \in 1..3 : FirstThree(mbox)[k] # <<>>
    /\ ~StartsWith(FirstThree(mbox)[1], <<"F", "r", "o", "m">>)

C17_EmailHeuristic ==
    HeuristicDecided => ((pc = "exited") <=> FileFailsRule(mbox))

\* the commit on the branch for the patch the last halt was at, if any
ResumedCommits == {c \in {NewCommits[i] : i \in DOMAIN NewCommits} :
                      halted.cur # 0 /\ PatchOf(c) = halted.cur}

\* C18: when an invocation has halted on a failed apply of patch k and a
\* resuming invocation applies k, the commit made for k has the author name,
\* email, date and message that were on disk for k at the halt.
C18_ResumedCommitHasPersistedRecord ==
    \A c \in ResumedCommits :
        /\ objects[c].author_name = halted.author_name
        /\ objects[c].author_email = halted.author_email
        /\ objects[c].author_date = halted.author_date
        /\ objects[c].msg = halted.msg

\* the record git-mailinfo's output for numbered file k alone stands for
ExtractedRecord(k) ==
    [author_name |-> MailAuthor(k, mbox[k]),
     author_email |-> MailEmail(k, mbox[k]),
     author_date |-> MailDate(k, mbox[k]),
     msg |-> stripspace(MailSubject(k, mbox[k]) \o <<NL, NL>> \o MailinfoMsg(k, mbox[k]))]

\* the record of a state or of a commit
RecordOf(r) ==
    [author_name |-> r.author_name, author_email |-> r.author_email,
     author_date |-> r.author_date, msg |-> r.msg]

\* the record the session files hold while the applier runs
PersistedRecord ==
    RecordOf([read_author_script(files["author-script"]) EXCEPT !.ret = 0]
             @@ [msg |-> files["final-commit"]])

\* C19: in the invocation that creates the session, what is persisted for
\* patch k while the applier runs, and what is committed for k, is the
\* record extracted from patch k, with nothing of an earlier patch in it.
C19_RecordFromOwnPatchOnly ==
    inv = 1 =>
        /\ pc = "applying" => PersistedRecord = ExtractedRecord(state.cur)
        /\ \A i \in DOMAIN NewCommits :
               RecordOf(objects[NewCommits[i]]) = ExtractedRecord(PatchOf(NewCommits[i]))

\* the invocation is in am_run
InAmRun == pc \in {"loop", "parse", "write_author_script", "write_final_commit",
                   "apply", "applying", "commit", "update_ref", "next",
                   "next_unlink_author", "next_unlink_msg", "destroy"}

\* the two ends of am_run: the process has stopped with the session on
\* disk, or has returned 0 with the session directory destroyed
HaltWithSession == pc = "exited" /\ exitCode = ExitFatal /\ am_in_progress
DoneDestroyed == pc = "exited" /\ exitCode = ExitOk /\ ~dirExists

\* cur changes in am_run only by one, in am_next
CurStep == (InAmRun /\ state'.cur # state.cur) => (pc = "next" /\ state'.cur = state.cur + 1)

\* git-apply has been run at most once for each index in this invocation
AppliedOnce ==
    \A i, j \in DOMAIN calls :
        (calls[i][1] = "apply" /\ calls[i] = calls[j]) => i = j

\* an iteration of the loop that does not end the process comes back to the
\* loop test with cur one more than the index the iteration was for (patch
\* is the name am_run made of that index at the loop test)
IterationAdvances == (InAmRun /\ pc # "loop" /\ pc' = "loop") => state'.cur = PatchNo(patch) + 1

\* a started invocation ends; a new invocation starts only from an ended one
Terminates == Running ~> pc = "exited"

\* am_run ends in one of its two ways
EndOfAmRun == (InAmRun /\ pc' = "exited") => (HaltWithSession' \/ DoneDestroyed')

\* C20: when every collaborator returns, every invocation terminates: an
\* iteration of am_run's loop ends the process or raises cur by exactly one,
\* git-apply runs at most once for an index in an invocation, and the
\* invocation comes to a halt with the session on disk or to a return with
\* the session directory destroyed.
C20_InvocationTerminates ==
    /\ [][CurStep]_vars
    /\ []AppliedOnce
    /\ [][IterationAdvances]_vars
    /\ Terminates
    /\ [][EndOfAmRun]_vars

\* a resumed invocation has run git-apply for two indexes and returned
C20_Witness ==
    /\ DoneDestroyed /\ inv = 2
    /\ Cardinality(CallsOf("apply")) = 2

====
